---- MODULE Spec2Model ----
(***************************************************************************)
(* InMAP: the concurrent scheduler of InMAPdata.Run (lib.inmap/run.go),    *)
(* its worker goroutines (doScience), the convergence test                 *)
(* (checkConvergence) and the per-layer extraction (toArray, GetGeometry). *)
(*                                                                         *)
(* Numbers.  Go float64 values are kept as integers in a fixed unit: an    *)
(* emissions flux is counted in 1/100 ug/m3/s (the mass ratios NOxToN,     *)
(* NH3ToN and SOxToS are kept in percent), a concentration in 1/100 ug/m3. *)
(* The quotient of checkConvergence is kept as a tagged value so that the  *)
(* IEEE results x/0 = +-Inf and 0/0 = NaN stay distinct from a finite      *)
(* quotient.                                                               *)
(***************************************************************************)
EXTENDS Integers, Sequences, FiniteSets, TLC

VARIABLES
    \* ---- InMAPdata and its cells
    Layer,          \* Layer[i]: c.Layer of d.Data[i]; the cells are sorted by it
    Ci,             \* Ci[i][s]: concentrations at the beginning of the time step
    Cf,             \* Cf[i][s]: concentrations at the end of the time step
    emisFlux,       \* emisFlux[i][s]
    wlock,          \* wlock[i]: the worker holding c.Lock(), or NoWorker
    rlocks,         \* rlocks[i]: number of c.RLock() holders
    Dt,             \* d.Dt, seconds
    NumIterations,  \* d.NumIterations
    \* ---- Run (the controlling goroutine)
    pc,             \* position of Run
    nprocs,         \* runtime.GOMAXPROCS(0)
    emissions,      \* the emissions argument of Run
    pending,        \* names of the emissions map not ranged over yet
    funcChan,       \* funcChan[p]: buffered channel of worker p
    wg,             \* counter of the sync.WaitGroup
    sendF,          \* index into scienceFuncs of the send loop
    sendP,          \* pp of the send loop
    iteration,
    timeSinceLastCheck,
    oldSum,
    \* ---- doScience (one goroutine per processor)
    wpc,            \* wpc[p]: position of worker p
    wf,             \* wf[p]: index of the function f it received
    wii,            \* wii[p]: its loop variable ii
    \* ---- toArray / GetGeometry called by an outside reader
    xpc,            \* position of the extraction call
    xkind,          \* "toArray" or "GetGeometry"
    xlayer,         \* the requested layer
    xi,             \* index of the cell being read
    xo,             \* the slice o built so far (cell indices)
    xcalls,         \* number of extraction calls made
    \* ---- checkConvergence applied on its own
    ccNew, ccOld, ccRes,
    \* ---- history (not read by the program)
    applied,        \* applied[i][k]: times scienceFuncs[k] ran on cell i
    visited,        \* visited[i]: times a worker locked cell i
    visitor,        \* visitor[i]: the workers that locked cell i
    taken,          \* taken[p]: functions received by worker p
    completed,      \* completed[p]: wg.Done() calls of worker p
    prevSum,        \* oldSum as it was before the last convergence check
    nChecks,        \* convergence checks performed
    lastQuit,       \* timeToQuit of the last convergence check
    \* ---- Run: the output
    outputAllLayers,\* the outputAllLayers argument of Run
    outputConc,     \* outputConc[name][k]: the map Run returns
    gvName,         \* the varName of the last call of Cell.getValue
    gvVal,          \* what that call returned, in 1/100
    \* ---- the boundary cells
    Boundary,       \* Boundary[i]: c.Boundary of d.Data[i]
    neighbors,      \* neighbors[i][dir]: c.West, c.East, ... of d.Data[i]
    boundaryCells,  \* boundaryCells[dir]: d.westBoundary, d.eastBoundary, ...
    \* ---- setTstepCFL applied on its own
    tsI,            \* number of cells of d.Cells it has ranged over
    tsDt,           \* the d.Dt it has set (a float64)
    tsProper,       \* least term so far of those with positive diffusivity
                    \* or nonzero wind
    tsPositive      \* every wind and diffusivity so far was positive

vars == <<Layer, Ci, Cf, emisFlux, wlock, rlocks, Dt, NumIterations,
          pc, nprocs, emissions, pending, funcChan, wg, sendF, sendP,
          iteration, timeSinceLastCheck, oldSum, wpc, wf, wii,
          xpc, xkind, xlayer, xi, xo, xcalls, ccNew, ccOld, ccRes,
          applied, visited, visitor, taken, completed, prevSum, nChecks,
          lastQuit, outputAllLayers, outputConc, gvName, gvVal, Boundary, neighbors,
          boundaryCells, tsI, tsDt, tsProper, tsPositive>>

cellVars == <<Layer, Ci, Cf, emisFlux, Dt, NumIterations>>
runVars == <<pc, nprocs, emissions, pending, funcChan, wg, sendF, sendP,
             iteration, timeSinceLastCheck, oldSum>>
workerVars == <<wpc, wf, wii>>
extractVars == <<xpc, xkind, xlayer, xi, xo, xcalls>>
checkVars == <<ccNew, ccOld, ccRes>>
histVars == <<applied, visited, visitor, taken, completed, prevSum, nChecks,
              lastQuit>>
outVars == <<outputAllLayers, outputConc, gvName, gvVal>>
bndVars == <<Boundary, neighbors, boundaryCells>>
tsVars == <<tsI, tsDt, tsProper, tsPositive>>

----------------------------------------------------------------------------
(* Bounds of the model *)

MaxProcs == 2           \* largest GOMAXPROCS
MaxCells == 3           \* largest len(d.Data)
MaxNumIterations == 2   \* largest configured iteration cap
MaxIter == 6            \* iterations explored when no cap is configured
MaxCalls == 2           \* extraction calls explored
MaxSum == 2             \* half-width of the windows of sums tried on checkConvergence
MaxGhosts == 2          \* boundary cells made
MaxEdgeCells == 2       \* largest len(d.Cells) when boundary cells are made
MaxConc == 1            \* largest concentration of a species in getValue
MaxTstepCells == 3      \* largest len(d.Cells) in setTstepCFL

----------------------------------------------------------------------------
(* Program constants *)

topLayerToCalc == 28
checkPeriod == 3600
\* tolerance = 0.005 = 1/200; kept as its reciprocal so that
\* |bias| > tolerance is the integer comparison |num| * 200 > |den|
toleranceInv == 200
numSpecies == 9         \* len(polNames)
igOrg == 0
ipOrg == 1
iPM2_5 == 2
igNH == 3
ipNH == 4
igS == 5
ipS == 6
igNO == 7
ipNO == 8
chanCap == 1            \* make(chan func(*Cell, *InMAPdata), 1)
\* mass ratios in percent: mwN/mwNOx = 0.30, mwN/mwNH3 = 0.82, mwSO2/mwS = 2.00
NOxToN == 30
NH3ToN == 82
SOxToS == 200
One == 100              \* the scale 1. in the same unit
\* mwNH4/mwN = 1.29, mwS/mwSO4 = 0.33, mwNO3/mwN = 4.43
NtoNH4 == 129
StoSO4 == 33
NtoNO3 == 443

Species == 0..(numSpecies - 1)
EmisNames == {"VOC", "NOx", "NH3", "SOx", "PM2_5"}
scienceFuncs == <<"addEmissionsFlux", "science">>
NoWorker == -1

Cells == DOMAIN Layer
NCells == Cardinality(Cells)
Procs == 0..(nprocs - 1)
Zeros == [s \in Species |-> 0]

Abs(x) == IF x < 0 THEN -x ELSE x
Min(a, b) == IF a < b THEN a ELSE b

----------------------------------------------------------------------------
(* checkConvergence *)

\* a slip: the quotient newSum / oldSum, the difference forgotten
BiasOfRatio(newSum, old) ==
    IF old = 0
    THEN IF newSum = 0 THEN [kind |-> "NaN", num |-> 0, den |-> 0]
         ELSE IF newSum > 0 THEN [kind |-> "+Inf", num |-> 0, den |-> 0]
         ELSE [kind |-> "-Inf", num |-> 0, den |-> 0]
    ELSE [kind |-> "finite", num |-> newSum, den |-> old]

\* bias := (newSum - oldSum) / oldSum in IEEE arithmetic
Bias(newSum, old) ==
    IF old = 0
    THEN IF newSum - old = 0 THEN [kind |-> "NaN", num |-> 0, den |-> 0]
         ELSE IF newSum - old > 0 THEN [kind |-> "+Inf", num |-> 0, den |-> 0]
         ELSE [kind |-> "-Inf", num |-> 0, den |-> 0]
    ELSE [kind |-> "finite", num |-> newSum - old, den |-> old]

\* math.Abs(bias) > tolerance; every comparison with NaN is false
AbsExceedsTolerance(b) ==
    CASE b.kind = "NaN" -> FALSE
      [] b.kind \in {"+Inf", "-Inf"} -> TRUE
      [] OTHER -> Abs(b.num) * toleranceInv > Abs(b.den)

\* math.IsInf(bias, 0)
IsInf(b) == b.kind \in {"+Inf", "-Inf"}

checkConvergence(newSum, old) ==
    LET bias == Bias(newSum, old)
    IN  IF AbsExceedsTolerance(bias) \/ IsInf(bias) THEN FALSE ELSE TRUE

----------------------------------------------------------------------------
(* The domain after construction *)

\* layer indices given to cells: the ground layer, the last layer that is
\* calculated and the first one that is not
LayerVals == {0, topLayerToCalc, topLayerToCalc + 1}

\* d.Data is sorted by ascending layer and starts at the ground
LayerProfiles ==
    UNION {{f \in [0..(n - 1) -> LayerVals] :
              /\ f[0] = 0
              /\ \A i \in 0..(n - 2) : f[i] <= f[i + 1]} : n \in 1..MaxCells}

DtChoices == {checkPeriod \div 2, checkPeriod}

\* emissions maps tried: SOx in every cell (also in the cells above
\* topLayerToCalc), a pollutant that is not in EmisNames, and both; the
\* empty map as well when no cap is configured (the emissions steer the
\* control flow only through the periodic check)
EmissionsChoices ==
    { [pol \in {"SOx"} |-> [row \in Cells |-> 1]],
      [pol \in {"CO"} |-> [row \in Cells |-> 1]],
      [pol \in {"SOx", "CO"} |-> [row \in Cells |-> 1]] }
      \cup (IF NumIterations > 0 THEN {} ELSE {<<>>})

InitCells ==
    /\ Layer \in LayerProfiles
    /\ Ci = [i \in DOMAIN Layer |-> Zeros]          \* Cell.prepare
    /\ Cf = [i \in DOMAIN Layer |-> Zeros]
    /\ emisFlux = [i \in DOMAIN Layer |-> Zeros]
    /\ wlock = [i \in DOMAIN Layer |-> NoWorker]
    /\ rlocks = [i \in DOMAIN Layer |-> 0]
    /\ NumIterations \in 0..MaxNumIterations
    \* the time step decides the control flow only through the periodic
    \* check, so both steps are tried when no cap is configured
    /\ Dt \in IF NumIterations > 0 THEN {checkPeriod} ELSE DtChoices

InitRun ==
    /\ pc = "start"
    /\ nprocs \in 1..MaxProcs
    /\ emissions = <<>>
    /\ pending = {}
    /\ funcChan = [p \in 0..(nprocs - 1) |-> <<>>]
    /\ wg = 0
    /\ sendF = 1
    /\ sendP = 0
    /\ iteration = 0
    /\ timeSinceLastCheck = 0
    /\ oldSum = Zeros
    /\ wpc = [p \in 0..(nprocs - 1) |-> "off"]
    /\ wf = [p \in 0..(nprocs - 1) |-> 1]
    /\ wii = [p \in 0..(nprocs - 1) |-> 0]

InitExtract ==
    /\ xpc = "idle"
    /\ xkind = "toArray"
    /\ xlayer = 0
    /\ xi = 0
    /\ xo = <<>>
    /\ xcalls = 0

InitCheck ==
    /\ ccNew = 0
    /\ ccOld = 0
    /\ ccRes = "none"

InitHist ==
    /\ applied = [i \in DOMAIN Layer |-> [k \in DOMAIN scienceFuncs |-> 0]]
    /\ visited = [i \in DOMAIN Layer |-> 0]
    /\ visitor = [i \in DOMAIN Layer |-> {}]
    /\ taken = [p \in 0..(nprocs - 1) |-> 0]
    /\ completed = [p \in 0..(nprocs - 1) |-> 0]
    /\ prevSum = Zeros
    /\ nChecks = 0
    /\ lastQuit = FALSE

\* the five directions in which a boundary cell is added
Directions == {"West", "East", "South", "North", "Above"}

InitOutput ==
    /\ outputAllLayers = FALSE
    /\ outputConc = <<>>
    /\ gvName = "none"
    /\ gvVal = 0

InitBoundary ==
    /\ Boundary = [i \in DOMAIN Layer |-> FALSE]
    /\ neighbors = [i \in DOMAIN Layer |-> [dir \in Directions |-> <<>>]]
    /\ boundaryCells = [dir \in Directions |-> <<>>]

\* float64 values: finite ones are num / den with den > 0
Finite(n, d) == [kind |-> "finite", num |-> n, den |-> d]
PosInf == [kind |-> "+Inf", num |-> 0, den |-> 0]
NegInf == [kind |-> "-Inf", num |-> 0, den |-> 0]
NaN == [kind |-> "NaN", num |-> 0, den |-> 0]

InitTstep ==
    /\ tsI = 0
    /\ tsDt = Finite(0, 1)                         \* d.Dt before the call
    /\ tsProper = PosInf
    /\ tsPositive = TRUE

Init ==
    /\ InitCells /\ InitRun /\ InitExtract /\ InitCheck /\ InitHist
    /\ InitOutput /\ InitBoundary /\ InitTstep

----------------------------------------------------------------------------
(* Run: set-up *)

\* Run, lines 111-118: the concentration vectors of every cell are renewed
Run_begin ==
    /\ pc = "start"
    /\ \E e \in EmissionsChoices :
         /\ emissions' = e
         /\ pending' = DOMAIN e
    /\ Ci' = [i \in Cells |-> Zeros]
    /\ Cf' = [i \in Cells |-> Zeros]
    /\ emisFlux' = [i \in Cells |-> Zeros]
    /\ pc' = "emis"
    /\ UNCHANGED <<Layer, Dt, NumIterations, wlock, rlocks, nprocs, funcChan,
                   wg, sendF, sendP, iteration, timeSinceLastCheck, oldSum>>
    /\ UNCHANGED <<workerVars, extractVars, checkVars, histVars>>
    /\ UNCHANGED <<outVars, bndVars, tsVars>>

\* the switch of lines 122-135: scale and species of a pollutant name
EmisScale(pol) ==
    CASE pol = "VOC" -> One
      [] pol = "NOx" -> NOxToN
      [] pol = "NH3" -> NH3ToN
      [] pol = "SOx" -> SOxToS
      [] pol = "PM2_5" -> One

EmisIndex(pol) ==
    CASE pol = "VOC" -> igOrg
      [] pol = "NOx" -> igNO
      [] pol = "NH3" -> igNH
      [] pol = "SOx" -> igS
      [] pol = "PM2_5" -> iPM2_5

\* addEmisFlux: emisFlux[row][iPol] = val * scale * fluxScale; the cells of
\* the model have Dx = Dy = Dz = 1, so fluxScale = 1
addEmisFlux(flux, arr, scale, iPol) ==
    [row \in DOMAIN flux |->
        IF row \in DOMAIN arr
        THEN [flux[row] EXCEPT ![iPol] = arr[row] * scale]
        ELSE flux[row]]

\* one pass of the range over the emissions map, a known name
Run_addEmisFlux ==
    /\ pc = "emis"
    /\ \E pol \in pending :
         /\ pol \in EmisNames
         /\ emisFlux' = addEmisFlux(emisFlux, emissions[pol], EmisScale(pol),
                                    EmisIndex(pol))
         /\ pending' = pending \ {pol}
    /\ UNCHANGED <<Layer, Ci, Cf, Dt, NumIterations, wlock, rlocks, pc, nprocs,
                   emissions, funcChan, wg, sendF, sendP, iteration,
                   timeSinceLastCheck, oldSum>>
    /\ UNCHANGED <<workerVars, extractVars, checkVars, histVars>>
    /\ UNCHANGED <<outVars, bndVars, tsVars>>

\* a slip: a name outside EmisNames passed over in silence
UnknownSkipped(pend, pol) == [pc |-> "emis", pending |-> pend \ {pol}]

\* default: panic(...): Run stops where it is
Unknown(pend, pol) == [pc |-> "panic", pending |-> pend]

\* the default branch: panic("Unknown emissions pollutant")
Run_panic ==
    /\ pc = "emis"
    /\ \E pol \in pending :
         /\ pol \notin EmisNames
         /\ pc' = Unknown(pending, pol).pc
         /\ pending' = Unknown(pending, pol).pending
    /\ UNCHANGED <<cellVars, wlock, rlocks, nprocs, emissions,
                   funcChan, wg, sendF, sendP, iteration, timeSinceLastCheck,
                   oldSum>>
    /\ UNCHANGED <<workerVars, extractVars, checkVars, histVars>>
    /\ UNCHANGED <<outVars, bndVars, tsVars>>

\* lines 138-150: the counters, and one goroutine and one channel per processor
Run_startWorkers ==
    /\ pc = "emis"
    /\ pending = {}
    /\ oldSum' = Zeros
    /\ iteration' = 0
    /\ timeSinceLastCheck' = 0
    /\ funcChan' = [p \in Procs |-> <<>>]
    /\ wpc' = [p \in Procs |-> "recv"]
    /\ pc' = "add"
    /\ UNCHANGED <<cellVars, wlock, rlocks, nprocs, emissions, pending, wg,
                   sendF, sendP, wf, wii>>
    /\ UNCHANGED <<extractVars, checkVars, histVars>>
    /\ UNCHANGED <<outVars, bndVars, tsVars>>

----------------------------------------------------------------------------
(* Run: the main calculation loop *)

\* a slip: one more than the functions that are sent
AddDeltaOneMore(np) == Len(scienceFuncs) * np + 1

\* len(scienceFuncs) * nprocs
AddDelta(np) == Len(scienceFuncs) * np

\* wg.Add(len(scienceFuncs) * nprocs), line 167.  The guard on iteration
\* bounds the exploration; the code has no such limit.
Run_wgAdd ==
    /\ pc = "add"
    /\ iteration < MaxIter
    /\ wg' = wg + AddDelta(nprocs)
    /\ sendF' = 1
    /\ sendP' = 0
    /\ pc' = "send"
    /\ UNCHANGED <<cellVars, wlock, rlocks, nprocs, emissions, pending,
                   funcChan, iteration, timeSinceLastCheck, oldSum>>
    /\ UNCHANGED <<workerVars, extractVars, checkVars, histVars>>
    /\ UNCHANGED <<outVars, bndVars, tsVars>>

\* a slip: channels made with room for two functions
CanSendTwo(ch) == Len(ch) < chanCap + 1

\* a send on a buffered channel goes through when the buffer has room
CanSend(ch) == Len(ch) < chanCap

\* funcChan[pp] <- function, lines 168-172: functions outermost, workers
\* innermost
Run_send ==
    /\ pc = "send"
    /\ CanSend(funcChan[sendP])
    /\ funcChan' = [funcChan EXCEPT ![sendP] = Append(@, sendF)]
    /\ IF sendP + 1 < nprocs
       THEN /\ sendP' = sendP + 1
            /\ sendF' = sendF
            /\ pc' = pc
       ELSE /\ sendP' = 0
            /\ sendF' = sendF + 1
            /\ pc' = IF sendF + 1 <= Len(scienceFuncs) THEN "send" ELSE "count"
    /\ UNCHANGED <<cellVars, wlock, rlocks, nprocs, emissions, pending, wg,
                   iteration, timeSinceLastCheck, oldSum>>
    /\ UNCHANGED <<workerVars, extractVars, checkVars, histVars>>
    /\ UNCHANGED <<outVars, bndVars, tsVars>>

\* a slip: the cap compared one iteration early
CapReachedEarly(it, n) == it + 1 >= n

\* iteration >= d.NumIterations, line 187
CapReached(it, n) == it >= n

\* timeSinceLastCheck >= checkPeriod, line 193
CheckDue(t) == t >= checkPeriod

\* a slip: the periodic check tried before the cap is looked at
AfterDispatchCheckFirst(n, it, t) ==
    IF CheckDue(t) THEN "waitCheck"
    ELSE IF n > 0 /\ CapReached(it, n) THEN "waitCap"
    ELSE "add"

\* the branch of lines 186-193, taken with the updated counters
AfterDispatch(n, it, t) ==
    IF n > 0
    THEN IF CapReached(it, n) THEN "waitCap" ELSE "add"
    ELSE IF CheckDue(t) THEN "waitCheck" ELSE "add"

\* lines 175-193: count the iteration and the model time, choose the branch
Run_count ==
    /\ pc = "count"
    /\ iteration' = iteration + 1
    /\ timeSinceLastCheck' = timeSinceLastCheck + Dt
    /\ pc' = AfterDispatch(NumIterations, iteration + 1, timeSinceLastCheck + Dt)
    /\ UNCHANGED <<cellVars, wlock, rlocks, nprocs, emissions, pending,
                   funcChan, wg, sendF, sendP, oldSum>>
    /\ UNCHANGED <<workerVars, extractVars, checkVars, histVars>>
    /\ UNCHANGED <<outVars, bndVars, tsVars>>

\* a slip: the wait left out
WaitReturnsAtOnce(w) == TRUE

\* wg.Wait() returns when the counter is zero
WaitReturns(w) == w = 0

\* lines 188-189: wg.Wait(); break
Run_waitCap ==
    /\ pc = "waitCap"
    /\ WaitReturns(wg)
    /\ pc' = "output"
    /\ UNCHANGED <<cellVars, wlock, rlocks, nprocs, emissions, pending,
                   funcChan, wg, sendF, sendP, iteration, timeSinceLastCheck,
                   oldSum>>
    /\ UNCHANGED <<workerVars, extractVars, checkVars, histVars>>
    /\ UNCHANGED <<outVars, bndVars, tsVars>>

\* line 194: wg.Wait() before the convergence check
Run_waitCheck ==
    /\ pc = "waitCheck"
    /\ WaitReturns(wg)
    /\ pc' = "check"
    /\ UNCHANGED <<cellVars, wlock, rlocks, nprocs, emissions, pending,
                   funcChan, wg, sendF, sendP, iteration, timeSinceLastCheck,
                   oldSum>>
    /\ UNCHANGED <<workerVars, extractVars, checkVars, histVars>>
    /\ UNCHANGED <<outVars, bndVars, tsVars>>

\* sum += c.Cf[ii] over d.Data, lines 199-202
RECURSIVE SumUpTo(_, _, _)
SumUpTo(cf, ii, n) ==
    IF n = 0 THEN 0 ELSE SumUpTo(cf, ii, n - 1) + cf[n - 1][ii]

SumCf(cf, ii) == SumUpTo(cf, ii, Cardinality(DOMAIN cf))

\* timeToQuit after the loop of lines 198-208
TimeToQuit(sums, old) == \A ii \in Species : checkConvergence(sums[ii], old[ii])

\* lines 196-211: the convergence check
Run_check ==
    /\ pc = "check"
    /\ LET sums == [ii \in Species |-> SumCf(Cf, ii)]
           timeToQuit == TimeToQuit(sums, oldSum)
       IN  /\ oldSum' = sums
           /\ prevSum' = oldSum
           /\ lastQuit' = timeToQuit
           /\ pc' = IF timeToQuit THEN "output" ELSE "add"
    /\ timeSinceLastCheck' = 0
    /\ nChecks' = nChecks + 1
    /\ UNCHANGED <<cellVars, wlock, rlocks, nprocs, emissions, pending,
                   funcChan, wg, sendF, sendP, iteration>>
    /\ UNCHANGED <<workerVars, extractVars, checkVars>>
    /\ UNCHANGED <<applied, visited, visitor, taken, completed>>
    /\ UNCHANGED <<outVars, bndVars, tsVars>>

\* outputVariables: the keys of polLabels and "MortalityRate" (popNames is
\* empty here)
OutputVariables ==
    {"TotalPM2_5", "VOC", "SOA", "PrimaryPM2_5", "NH3", "pNH4", "SOx", "pSO4",
     "NOx", "pNO3", "MortalityRate"}

\* d.Nlayers: the cells are sorted by layer, the last one is on the top layer
Nlayers == Layer[NCells - 1] + 1

\* what d.toArray(name, layer) returns: the cells of the layer, in order
\* (a cell stands for its value)
toArrayCells(layer) ==
    SelectSeq([j \in 1..NCells |-> j - 1], LAMBDA i : Layer[i] = layer)

\* the cell at which d.toArray(name, layer) returns early, its read lock kept
toArrayKeeps(layer) ==
    {i \in Cells : Layer[i] > layer /\ \A j \in Cells : j < i => Layer[j] <= layer}

\* lines 214-236: outputConc[name] = make([][]float64, d.Nlayers), and the
\* first outputLay layers are filled by d.toArray; the other entries stay nil
\* (an empty sequence here)
Run_output ==
    /\ pc = "output"
    /\ \E all \in BOOLEAN :
         LET outputLay == IF all THEN Nlayers ELSE 1
         IN  /\ outputAllLayers' = all
             /\ outputConc' =
                   [name \in OutputVariables |->
                      [k \in 1..Nlayers |->
                         IF k - 1 < outputLay THEN toArrayCells(k - 1)
                                              ELSE <<>>]]
             /\ rlocks' =
                   [i \in Cells |->
                      rlocks[i] + Cardinality(OutputVariables)
                        * Cardinality({k \in 0..(outputLay - 1) :
                                          i \in toArrayKeeps(k)})]
    /\ pc' = "returned"
    /\ UNCHANGED <<cellVars, wlock, nprocs, emissions, pending, funcChan, wg,
                   sendF, sendP, iteration, timeSinceLastCheck, oldSum>>
    /\ UNCHANGED <<workerVars, extractVars, checkVars, histVars>>
    /\ UNCHANGED <<gvName, gvVal, bndVars, tsVars>>

----------------------------------------------------------------------------
(* The science functions *)

\* Cell.addEmissionsFlux: Cf[i] += emisFlux[i] * d.Dt; Ci[i] = Cf[i]
addEmissionsFlux(cf, flux, dt) == [i \in Species |-> cf[i] + flux[i] * dt]

\* The second entry of scienceFuncs (UpwindAdvection, Mixing, Chemistry,
\* DryDeposition, WetDeposition) is supplied from outside the scheduler.  It
\* writes the Cf of its own cell only; here it is a deposition that removes
\* what exceeds a steady level.
DepositionLevel == 1080001

science(cf) == [i \in Species |-> Min(cf[i], DepositionLevel)]

\* f(c, d) for the k-th science function
RunFunc(k, cf, flux, dt) ==
    IF scienceFuncs[k] = "addEmissionsFlux"
    THEN addEmissionsFlux(cf, flux, dt)
    ELSE science(cf)

----------------------------------------------------------------------------
(* doScience: the goroutine of processor procNum *)

\* for f := range funcChan
doScience_recv(p) ==
    /\ wpc[p] = "recv"
    /\ Len(funcChan[p]) > 0
    /\ wf' = [wf EXCEPT ![p] = Head(funcChan[p])]
    /\ funcChan' = [funcChan EXCEPT ![p] = Tail(@)]
    /\ wii' = [wii EXCEPT ![p] = p]                \* ii := procNum
    /\ wpc' = [wpc EXCEPT ![p] = "loop"]
    /\ taken' = [taken EXCEPT ![p] = @ + 1]
    /\ UNCHANGED <<cellVars, wlock, rlocks, pc, nprocs, emissions, pending,
                   wg, sendF, sendP, iteration, timeSinceLastCheck, oldSum>>
    /\ UNCHANGED <<extractVars, checkVars>>
    /\ UNCHANGED <<applied, visited, visitor, completed, prevSum, nChecks,
                   lastQuit>>
    /\ UNCHANGED <<outVars, bndVars, tsVars>>

\* c.Lock() goes through when nobody holds the RWMutex
CanLock(i) == wlock[i] = NoWorker /\ rlocks[i] = 0

\* the RWMutex of cell i once worker p holds it for writing
Locked(locks, i, p) == [locks EXCEPT ![i] = p]

\* c = d.Data[ii]; c.Lock()
doScience_Lock(p) ==
    /\ wpc[p] = "loop"
    /\ wii[p] < NCells
    /\ CanLock(wii[p])
    /\ wlock' = Locked(wlock, wii[p], p)
    /\ wpc' = [wpc EXCEPT ![p] = "locked"]
    /\ visited' = [visited EXCEPT ![wii[p]] = @ + 1]
    /\ visitor' = [visitor EXCEPT ![wii[p]] = @ \cup {p}]
    /\ UNCHANGED <<cellVars, rlocks, wf, wii>>
    /\ UNCHANGED <<runVars, extractVars, checkVars>>
    /\ UNCHANGED <<applied, taken, completed, prevSum, nChecks, lastQuit>>
    /\ UNCHANGED <<outVars, bndVars, tsVars>>

\* a slip: c.Unlock() left out
UnlockedNot(locks, i) == locks

\* the RWMutex of cell i once its writer has let go
Unlocked(locks, i) == [locks EXCEPT ![i] = NoWorker]

\* a slip: ii++ in place of ii += nprocs
NextCellByOne(ii, np) == ii + 1

\* ii += nprocs
NextCell(ii, np) == ii + np

\* a slip: the layer after topLayerToCalc calculated as well
CalculatedOneMore(layer) == layer <= topLayerToCalc + 1

\* c.Layer <= topLayerToCalc
Calculated(layer) == layer <= topLayerToCalc

\* if c.Layer <= topLayerToCalc { f(c, d) }; c.Unlock(); ii += nprocs
doScience_f(p) ==
    /\ wpc[p] = "locked"
    /\ LET i == wii[p]
       IN  IF Calculated(Layer[i])
           THEN /\ Cf' = [Cf EXCEPT ![i] = RunFunc(wf[p], Cf[i], emisFlux[i], Dt)]
                /\ Ci' = IF scienceFuncs[wf[p]] = "addEmissionsFlux"
                         THEN [Ci EXCEPT ![i] = Cf'[i]]
                         ELSE Ci
                /\ applied' = [applied EXCEPT ![i][wf[p]] = @ + 1]
           ELSE UNCHANGED <<Cf, Ci, applied>>
    /\ wlock' = Unlocked(wlock, wii[p])
    /\ wii' = [wii EXCEPT ![p] = NextCell(@, nprocs)]
    /\ wpc' = [wpc EXCEPT ![p] = "loop"]
    /\ UNCHANGED <<Layer, emisFlux, Dt, NumIterations, rlocks, wf>>
    /\ UNCHANGED <<runVars, extractVars, checkVars>>
    /\ UNCHANGED <<visited, visitor, taken, completed, prevSum, nChecks,
                   lastQuit>>
    /\ UNCHANGED <<outVars, bndVars, tsVars>>

\* the loop over the cells is over: wg.Done()
doScience_Done(p) ==
    /\ wpc[p] = "loop"
    /\ wii[p] >= NCells
    /\ wg' = wg - 1
    /\ wpc' = [wpc EXCEPT ![p] = "recv"]
    /\ completed' = [completed EXCEPT ![p] = @ + 1]
    /\ UNCHANGED <<cellVars, wlock, rlocks, pc, nprocs, emissions, pending,
                   funcChan, sendF, sendP, iteration, timeSinceLastCheck,
                   oldSum, wf, wii>>
    /\ UNCHANGED <<extractVars, checkVars>>
    /\ UNCHANGED <<applied, visited, visitor, taken, prevSum, nChecks,
                   lastQuit>>
    /\ UNCHANGED <<outVars, bndVars, tsVars>>

doScience(p) ==
    \/ doScience_recv(p)
    \/ doScience_Lock(p)
    \/ doScience_f(p)
    \/ doScience_Done(p)

----------------------------------------------------------------------------
(* Run and its workers *)

Run ==
    \/ Run_begin
    \/ Run_addEmisFlux
    \/ Run_panic
    \/ Run_startWorkers
    \/ Run_wgAdd
    \/ Run_send
    \/ Run_count
    \/ Run_waitCap
    \/ Run_waitCheck
    \/ Run_check
    \/ Run_output

Next == Run \/ \E p \in Procs : doScience(p)

Spec == Init /\ [][Next]_vars

----------------------------------------------------------------------------
(* toArray and GetGeometry, called on the domain by an outside reader.     *)
(* Both range over the cells with the same locking; toArray appends        *)
(* c.getValue(pol), GetGeometry appends c.WebMapGeom.  The slice o is kept *)
(* as the indices of the cells whose value was appended.                   *)

ExtractKinds == {"toArray", "GetGeometry"}

\* the call: o := make(..., 0, len(d.Cells)).  The guard on xcalls bounds
\* the exploration.
toArray_call ==
    /\ xpc \in {"idle", "returned"}
    /\ xcalls < MaxCalls
    /\ xkind' \in ExtractKinds
    /\ xlayer' \in LayerVals
    /\ xi' = 0
    /\ xo' = <<>>
    /\ xpc' = "loop"
    /\ xcalls' = xcalls + 1
    /\ UNCHANGED <<cellVars, wlock, rlocks>>
    /\ UNCHANGED <<runVars, workerVars, checkVars, histVars>>
    /\ UNCHANGED <<outVars, bndVars, tsVars>>

\* c.RLock() goes through when no writer holds the RWMutex
CanRLock(i) == wlock[i] = NoWorker

\* c.RLock()
toArray_RLock ==
    /\ xpc = "loop"
    /\ xi < NCells
    /\ CanRLock(xi)
    /\ rlocks' = [rlocks EXCEPT ![xi] = @ + 1]
    /\ xpc' = "rlocked"
    /\ UNCHANGED <<cellVars, wlock, xkind, xlayer, xi, xo, xcalls>>
    /\ UNCHANGED <<runVars, workerVars, checkVars, histVars>>
    /\ UNCHANGED <<outVars, bndVars, tsVars>>

\* if c.Layer > layer { return o }: the read lock of this cell is not given
\* back
toArray_pastLayer ==
    /\ xpc = "rlocked"
    /\ Layer[xi] > xlayer
    /\ xpc' = "returned"
    /\ UNCHANGED <<cellVars, wlock, rlocks, xkind, xlayer, xi, xo, xcalls>>
    /\ UNCHANGED <<runVars, workerVars, checkVars, histVars>>
    /\ UNCHANGED <<outVars, bndVars, tsVars>>

\* the reader count of cell i after c.RUnlock()
RUnlocked(locks, i) == [locks EXCEPT ![i] = @ - 1]

\* if c.Layer == layer { o = append(o, ...) }; c.RUnlock()
toArray_read ==
    /\ xpc = "rlocked"
    /\ ~(Layer[xi] > xlayer)
    /\ xo' = IF Layer[xi] = xlayer THEN Append(xo, xi) ELSE xo
    /\ rlocks' = RUnlocked(rlocks, xi)
    /\ xi' = xi + 1
    /\ xpc' = "loop"
    /\ UNCHANGED <<cellVars, wlock, xkind, xlayer, xcalls>>
    /\ UNCHANGED <<runVars, workerVars, checkVars, histVars>>
    /\ UNCHANGED <<outVars, bndVars, tsVars>>

\* the range is over: return o
toArray_return ==
    /\ xpc = "loop"
    /\ xi >= NCells
    /\ xpc' = "returned"
    /\ UNCHANGED <<cellVars, wlock, rlocks, xkind, xlayer, xi, xo, xcalls>>
    /\ UNCHANGED <<runVars, workerVars, checkVars, histVars>>
    /\ UNCHANGED <<outVars, bndVars, tsVars>>

toArray ==
    \/ toArray_call
    \/ toArray_RLock
    \/ toArray_pastLayer
    \/ toArray_read
    \/ toArray_return

\* extraction from a constructed domain on which Run is not running
SpecExtract == Init /\ [][toArray]_vars

----------------------------------------------------------------------------
(* checkConvergence on its own, over windows of sums around 0 and around   *)
(* +-1/tolerance, where new - old crosses the tolerance                    *)

CheckVals ==
    {b + d : b \in {0, toleranceInv, -toleranceInv}, d \in (-MaxSum)..MaxSum}

InitCheckConvergence ==
    /\ ccNew \in CheckVals
    /\ ccOld \in CheckVals
    /\ ccRes = "none"
    /\ Layer = [i \in {0} |-> 0]
    /\ Ci = [i \in {0} |-> Zeros]
    /\ Cf = [i \in {0} |-> Zeros]
    /\ emisFlux = [i \in {0} |-> Zeros]
    /\ wlock = [i \in {0} |-> NoWorker]
    /\ rlocks = [i \in {0} |-> 0]
    /\ Dt = checkPeriod
    /\ NumIterations = 0
    /\ nprocs = 1
    /\ InitRun
    /\ InitExtract
    /\ InitHist
    /\ InitOutput
    /\ InitBoundary
    /\ InitTstep

checkConvergence_call ==
    /\ ccRes = "none"
    /\ ccRes' = IF checkConvergence(ccNew, ccOld) THEN "true" ELSE "false"
    /\ UNCHANGED <<ccNew, ccOld, cellVars, wlock, rlocks>>
    /\ UNCHANGED <<runVars, workerVars, extractVars, histVars>>
    /\ UNCHANGED <<outVars, bndVars, tsVars>>

SpecCheckConvergence == InitCheckConvergence /\ [][checkConvergence_call]_vars

----------------------------------------------------------------------------
(* Boundary cells: boundaryCopy and the five add...Boundary functions.  A   *)
(* pointer to a boundary cell is the collection it is in and its place there *)

\* the neighbour slices of a Cell
NeighborLists == Directions \cup {"Below", "GroundLevel"}

\* new(Cell): every field has its zero value, every slice is nil
newCell ==
    [Boundary |-> FALSE, Layer |-> 0, Ci |-> <<>>, Cf |-> <<>>,
     emisFlux |-> <<>>, neighbors |-> [dir \in NeighborLists |-> <<>>]]

\* Cell.prepare: Ci, Cf and emisFlux made with len(polNames) zeros
prepare(c) == [c EXCEPT !.Ci = Zeros, !.Cf = Zeros, !.emisFlux = Zeros]

\* a slip: c2.Boundary = true left out
boundaryCopyUnflagged(i) == prepare([newCell EXCEPT !.Layer = Layer[i]])

\* Cell.boundaryCopy of active cell i: the layer (and the geometry and
\* meteorology) copied, the flag set, the vectors prepared
boundaryCopy(i) ==
    prepare([newCell EXCEPT !.Layer = Layer[i], !.Boundary = TRUE])

\* number of boundary cells made so far
NumGhosts ==
    Len(boundaryCells["West"]) + Len(boundaryCells["East"])
      + Len(boundaryCells["South"]) + Len(boundaryCells["North"])
      + Len(boundaryCells["Above"])

\* c := cell.boundaryCopy(); cell.<dir> = []*Cell{c};
\* d.<dir>Boundary = append(d.<dir>Boundary, c).  The cell is written without
\* its lock, so this is done while Run is not running.
addBoundary(dir, i) ==
    /\ pc \in {"start", "returned"}
    /\ NumGhosts < MaxGhosts
    /\ boundaryCells' = [boundaryCells EXCEPT ![dir] = Append(@, boundaryCopy(i))]
    /\ neighbors' = [neighbors EXCEPT ![i][dir] =
                        <<[coll |-> dir, at |-> Len(boundaryCells[dir]) + 1]>>]
    /\ UNCHANGED <<cellVars, wlock, rlocks, Boundary>>
    /\ UNCHANGED <<runVars, workerVars, extractVars, checkVars, histVars>>
    /\ UNCHANGED <<outVars, tsVars>>

addWestBoundary == \E i \in Cells : addBoundary("West", i)

addEastBoundary == \E i \in Cells : addBoundary("East", i)

addSouthBoundary == \E i \in Cells : addBoundary("South", i)

addNorthBoundary == \E i \in Cells : addBoundary("North", i)

addTopBoundary == \E i \in Cells : addBoundary("Above", i)

\* Run with a cap: the periodic check is never reached
RunToCap ==
    \/ Run_begin
    \/ Run_addEmisFlux
    \/ Run_panic
    \/ Run_startWorkers
    \/ Run_wgAdd
    \/ Run_send
    \/ Run_count
    \/ Run_waitCap
    \/ Run_output

\* one worker and one iteration: what the workers reach does not depend on
\* their number
InitBoundaryRun ==
    /\ Init
    /\ NCells <= MaxEdgeCells
    /\ nprocs = 1
    /\ NumIterations = 1

NextBoundary ==
    \/ addWestBoundary
    \/ addEastBoundary
    \/ addSouthBoundary
    \/ addNorthBoundary
    \/ addTopBoundary
    \/ RunToCap
    \/ \E p \in Procs : doScience(p)

SpecBoundary == InitBoundaryRun /\ [][NextBoundary]_vars

----------------------------------------------------------------------------
(* setTstepCFL, in float64 arithmetic on the values of above *)

\* a / b for finite a and b
Quo(a, b) ==
    IF b.num = 0
    THEN IF a.num > 0 THEN PosInf ELSE IF a.num < 0 THEN NegInf ELSE NaN
    ELSE IF b.num > 0 THEN Finite(a.num * b.den, a.den * b.num)
         ELSE Finite(-(a.num * b.den), a.den * (-b.num))

\* a < b; every comparison with NaN is false
Less(a, b) ==
    CASE a.kind = "NaN" \/ b.kind = "NaN" -> FALSE
      [] a.kind = "+Inf" -> FALSE
      [] a.kind = "-Inf" -> b.kind # "-Inf"
      [] b.kind = "+Inf" -> TRUE
      [] b.kind = "-Inf" -> FALSE
      [] OTHER -> a.num * b.den < b.num * a.den

\* the greatest of the values of a sequence
RECURSIVE max(_)
max(vals) ==
    IF Len(vals) = 1 THEN vals[1]
    ELSE LET m == max(Tail(vals))
         IN  IF Less(m, vals[1]) THEN vals[1] ELSE m

\* the least of the values of a sequence
RECURSIVE amin(_)
amin(vals) ==
    IF Len(vals) = 1 THEN vals[1]
    ELSE LET m == amin(Tail(vals))
         IN  IF Less(vals[1], m) THEN vals[1] ELSE m

\* math.Pow(3., 0.5) to three decimals
sqrt3 == Finite(1732, 1000)

\* const Cmax = 1.
Cmax == Finite(1, 1)

\* the advection time step of cell c
dt1(c) ==
    Quo(Quo(Cmax, sqrt3),
        max(<<Finite(Abs(c.UAvg) + c.UDeviation * 2, c.Dx),
              Finite(Abs(c.VAvg) + c.VDeviation * 2, c.Dy),
              Finite(Abs(c.WAvg), c.Dz)>>))

\* the vertical diffusion time step: Cmax * c.Dz * c.Dz / 2. / c.Kzz
dt2(c) == Quo(Finite(Cmax.num * c.Dz * c.Dz, 2), Finite(c.Kzz, 1))

\* the horizontal diffusion time steps
dt3(c) == Quo(Finite(Cmax.num * c.Dx * c.Dx, 2), Finite(c.Kxxyy, 1))

dt4(c) == Quo(Finite(Cmax.num * c.Dy * c.Dy, 2), Finite(c.Kxxyy, 1))

\* cells tried: still and moving air, zero, negative and positive
\* diffusivities, sizes that are positive
TstepCells ==
    [UAvg : {-1, 0, 2}, UDeviation : {0, 1}, VAvg : {0}, VDeviation : {0},
     WAvg : {0, 1}, Dx : {1}, Dy : {2}, Dz : {1, 2, 3},
     Kzz : {-1, 0, 1, 2}, Kxxyy : {-1, 0, 1}]

\* the wind of cell c is zero in every direction
Still(c) ==
    /\ Abs(c.UAvg) + c.UDeviation * 2 = 0
    /\ Abs(c.VAvg) + c.VDeviation * 2 = 0
    /\ Abs(c.WAvg) = 0

\* the terms of cell c whose diffusivity is positive or whose wind is not
\* zero, after the least one so far
ProperTerms(c, least) ==
    <<least>> \o (IF Still(c) THEN <<>> ELSE <<dt1(c)>>)
              \o (IF c.Kzz <= 0 THEN <<>> ELSE <<dt2(c)>>)
              \o (IF c.Kxxyy <= 0 THEN <<>> ELSE <<dt3(c), dt4(c)>>)

\* one pass of the loop of setTstepCFL, over the next cell of d.Cells
setTstepCFL ==
    /\ tsI < MaxTstepCells
    /\ \E c \in TstepCells :
         /\ tsDt' = IF tsI = 0
                    THEN amin(<<dt1(c), dt2(c), dt3(c), dt4(c)>>)
                    ELSE amin(<<tsDt, dt1(c), dt2(c), dt3(c), dt4(c)>>)
         /\ tsProper' = amin(ProperTerms(c, tsProper))
         /\ tsPositive' = (tsPositive /\ ~Still(c) /\ c.Kzz > 0 /\ c.Kxxyy > 0)
    /\ tsI' = tsI + 1
    /\ UNCHANGED <<cellVars, wlock, rlocks>>
    /\ UNCHANGED <<runVars, workerVars, extractVars, checkVars, histVars>>
    /\ UNCHANGED <<outVars, bndVars>>

\* a domain of one cell on which only setTstepCFL is run
InitTstepRun ==
    /\ Layer = [i \in {0} |-> 0]
    /\ Ci = [i \in {0} |-> Zeros]
    /\ Cf = [i \in {0} |-> Zeros]
    /\ emisFlux = [i \in {0} |-> Zeros]
    /\ wlock = [i \in {0} |-> NoWorker]
    /\ rlocks = [i \in {0} |-> 0]
    /\ Dt = checkPeriod
    /\ NumIterations = 0
    /\ nprocs = 1
    /\ InitRun
    /\ InitExtract
    /\ InitCheck
    /\ InitHist
    /\ InitOutput
    /\ InitBoundary
    /\ InitTstep

SpecTstep == InitTstepRun /\ [][setTstepCFL]_vars

----------------------------------------------------------------------------
(* Run with a cap under fair scheduling: the goroutine of Run takes a step  *)
(* when it can, and so does some worker when a worker can.  A worker that   *)
(* can take a step stays able to until it takes it, so a scheduler fair to  *)
(* every worker is fair in this sense.                                      *)

\* the largest cap: a run with a smaller cap does what this one does up to
\* its last iteration
InitCap ==
    /\ Init
    /\ NumIterations = MaxNumIterations
    /\ NCells <= MaxEdgeCells

NextCap == RunToCap \/ \E p \in Procs : doScience(p)

FairCap ==
    /\ WF_vars(RunToCap)
    /\ WF_vars(\E p \in Procs : doScience(p))

SpecCap == InitCap /\ [][NextCap]_vars /\ FairCap

----------------------------------------------------------------------------
(* Cell.getValue on the concentration variables of polLabels *)

\* polLabels: the species of a variable and the conversions, in 1/100
polLabels ==
    [TotalPM2_5 |-> [index |-> <<iPM2_5, ipOrg, ipNH, ipS, ipNO>>,
                     conversion |-> <<One, One, One, NtoNH4, StoSO4, NtoNO3>>],
     VOC |-> [index |-> <<igOrg>>, conversion |-> <<One>>],
     SOA |-> [index |-> <<ipOrg>>, conversion |-> <<One>>],
     PrimaryPM2_5 |-> [index |-> <<iPM2_5>>, conversion |-> <<One>>],
     NH3 |-> [index |-> <<igNH>>, conversion |-> <<(One * One) \div NH3ToN>>],
     pNH4 |-> [index |-> <<ipNH>>, conversion |-> <<NtoNH4>>],
     SOx |-> [index |-> <<igS>>, conversion |-> <<(One * One) \div SOxToS>>],
     pSO4 |-> [index |-> <<ipS>>, conversion |-> <<StoSO4>>],
     NOx |-> [index |-> <<igNO>>, conversion |-> <<(One * One) \div NOxToN>>],
     pNO3 |-> [index |-> <<ipNO>>, conversion |-> <<NtoNO3>>]]

\* for i, ii := range polConv.index { o += c.Cf[ii] * polConv.conversion[i] }
\* over the first n entries of index
RECURSIVE weightedSum(_, _, _)
weightedSum(pc0, cf, n) ==
    IF n = 0 THEN 0
    ELSE weightedSum(pc0, cf, n - 1) + cf[pc0.index[n]] * pc0.conversion[n]

\* c.getValue(varName) for a key of polLabels
getValue(varName, cf) ==
    weightedSum(polLabels[varName], cf, Len(polLabels[varName].index))

getValue_call ==
    /\ \E varName \in DOMAIN polLabels :
         /\ gvName' = varName
         /\ gvVal' = getValue(varName, Cf[0])
    /\ UNCHANGED <<outputAllLayers, outputConc>>
    /\ UNCHANGED <<cellVars, wlock, rlocks>>
    /\ UNCHANGED <<runVars, workerVars, extractVars, checkVars, histVars>>
    /\ UNCHANGED <<bndVars, tsVars>>

\* one cell with any concentrations up to MaxConc
InitGetValue ==
    /\ Layer = [i \in {0} |-> 0]
    /\ Ci = [i \in {0} |-> Zeros]
    /\ Cf \in [{0} -> [Species -> 0..MaxConc]]
    /\ emisFlux = [i \in {0} |-> Zeros]
    /\ wlock = [i \in {0} |-> NoWorker]
    /\ rlocks = [i \in {0} |-> 0]
    /\ Dt = checkPeriod
    /\ NumIterations = 0
    /\ nprocs = 1
    /\ InitRun
    /\ InitExtract
    /\ InitCheck
    /\ InitHist
    /\ InitOutput
    /\ InitBoundary
    /\ InitTstep

SpecGetValue == InitGetValue /\ [][getValue_call]_vars

----------------------------------------------------------------------------
(* Run with a cap while an outside reader calls toArray or GetGeometry *)

InitExt ==
    /\ Init
    /\ NumIterations = 1
    /\ NCells <= MaxEdgeCells

NextExt ==
    \/ RunToCap
    \/ \E p \in Procs : doScience(p)
    \/ toArray

SpecExt == InitExt /\ [][NextExt]_vars

----------------------------------------------------------------------------
(* Properties *)

\* cells that the science functions are run on
CalcCells == {i \in Cells : Layer[i] <= topLayerToCalc}

\* no worker is executing and no operator is queued
Quiescent ==
    /\ wg = 0
    /\ \A p \in Procs :
         /\ wpc[p] = "recv"
         /\ funcChan[p] = <<>>
         /\ taken[p] = Len(scienceFuncs) * iteration
         /\ completed[p] = Len(scienceFuncs) * iteration

\* C1: within an iteration, operator k has been applied to every cell before
\* operator k+1 is applied to any cell: at every moment the number of times
\* the second science function has run on a cell is at most the number of
\* times the first one has run on any other cell.
C1_PhaseBarrier ==
    \A i \in CalcCells : \A j \in CalcCells :
        \A k \in 1..(Len(scienceFuncs) - 1) :
            applied[i][k + 1] <= applied[j][k]

\* C2: with NumIterations = n >= 1, when Run has left its main loop exactly n
\* iterations were dispatched, every worker has completed every dispatched
\* operator, every cell with Layer <= topLayerToCalc has received each
\* operator exactly n times, every queue is empty and no cell lock is held.
C2_CapFinishesIteration ==
    (pc = "output" /\ NumIterations > 0) =>
        /\ iteration = NumIterations
        /\ wg = 0
        /\ \A p \in Procs :
             /\ funcChan[p] = <<>>
             /\ wpc[p] = "recv"
             /\ taken[p] = Len(scienceFuncs) * NumIterations
             /\ completed[p] = Len(scienceFuncs) * NumIterations
        /\ \A i \in Cells :
             /\ wlock[i] = NoWorker
             /\ rlocks[i] = 0
             /\ i \in CalcCells =>
                  \A k \in DOMAIN scienceFuncs : applied[i][k] = NumIterations

C2_Witness ==
    /\ pc = "output"
    /\ NumIterations > 1
    /\ nprocs > 1
    /\ NCells > nprocs
    /\ \E i \in Cells : applied[i][2] = NumIterations

\* the relative change (new - old) / old has absolute value <= tolerance
\* (which an undefined or infinite quotient has not)
WithinTolerance(newSum, old) ==
    /\ old # 0
    /\ Abs(newSum - old) * toleranceInv <= Abs(old)

\* C3: Run leaves its loop at a periodic check only if every species' relative
\* change of the sum of Cf has absolute value <= tolerance.
C3_ConvergenceNeedsEverySpecies ==
    (pc = "output" /\ NumIterations <= 0) =>
        \A ii \in Species : WithinTolerance(oldSum[ii], prevSum[ii])

\* C4: a previously recorded sum of zero is never convergent, whatever the
\* new sum.
C4_ZeroPriorNeverConverges ==
    (ccRes # "none" /\ ccOld = 0) => ccRes = "false"

\* C5: two identical sums are convergent: checkConvergence(s, s) is true for
\* every s.
C5_IdenticalSumsConverge ==
    (ccRes # "none" /\ ccNew = ccOld) => ccRes = "true"

C5_Witness ==
    /\ ccRes = "true"
    /\ ccNew = ccOld
    /\ ccNew = toleranceInv

\* C6: the loop is left only when a cap is configured and the iteration count
\* has reached it, or when no cap is configured and a periodic check has just
\* passed; with a cap no check is ever performed and the loop is not left
\* before the cap; a failed check leaves the loop running.
C6_TerminationStateMachine ==
    /\ pc \in {"output", "returned"} =>
         \/ NumIterations > 0 /\ iteration = NumIterations
         \/ NumIterations <= 0 /\ nChecks > 0 /\ lastQuit
    /\ NumIterations > 0 =>
         /\ nChecks = 0
         /\ pc \notin {"waitCheck", "check"}
         /\ iteration <= NumIterations
    /\ (nChecks > 0 /\ ~lastQuit) => pc \in {"add", "send", "count", "waitCheck", "check"}
    /\ pc \in {"start", "emis", "panic", "add", "send", "count", "waitCap",
               "waitCheck", "check", "output", "returned"}

C6_Witness ==
    /\ pc = "output"
    /\ NumIterations = 0
    /\ nChecks > 2
    /\ lastQuit

\* C7: a convergence check is made only when the model time since the last
\* check is >= checkPeriod, and when the sums of Cf are read every operator
\* dispatched so far has completed on every cell: no worker is executing or
\* has an operator queued.
C7_QuiescentCheck ==
    /\ pc \in {"waitCheck", "check"} => timeSinceLastCheck >= checkPeriod
    /\ nChecks * checkPeriod <= iteration * Dt
    /\ pc = "check" =>
         /\ Quiescent
         /\ \A i \in Cells : wlock[i] = NoWorker
         /\ \A i \in CalcCells : \A k \in DOMAIN scienceFuncs :
                applied[i][k] = iteration

C7_Witness ==
    /\ pc = "check"
    /\ Dt < checkPeriod
    /\ nChecks = 1
    /\ nprocs > 1
    /\ NCells > nprocs

\* C8: after toArray or GetGeometry has returned, on whichever path, no
\* cell's read lock is still held.
C8_ExtractionReleasesLocks ==
    xpc = "returned" => \A i \in Cells : rlocks[i] = 0

\* the cell is counted in visited[i] for the function worker p is running
PassedInTask(i, p) ==
    /\ wpc[p] \in {"loop", "locked"}
    /\ \/ wii[p] > i
       \/ wii[p] = i /\ wpc[p] = "locked"

\* C9: cell i is processed by worker i mod nprocs and by no other worker, and
\* once for each operator that worker has taken; after a completed wait every
\* cell has been visited once per dispatched operator.
C9_StaticStriping ==
    /\ \A i \in Cells :
         /\ visitor[i] \subseteq {i % nprocs}
         /\ visited[i] = completed[i % nprocs]
                           + (IF PassedInTask(i, i % nprocs) THEN 1 ELSE 0)
    /\ pc \in {"check", "output"} =>
         \A i \in Cells : visited[i] = Len(scienceFuncs) * iteration

C9_Witness ==
    /\ pc = "output"
    /\ nprocs = 2
    /\ NCells = 3
    /\ \A i \in Cells : visitor[i] = {i % nprocs}

\* the cells whose lock worker p holds
HeldBy(p) == {i \in Cells : wlock[i] = p}

\* C10: a worker that runs an operator on a cell holds the exclusive lock of
\* that cell, taken before the operator starts, and of no other cell; once
\* the operator has returned the lock is released, so a worker at any other
\* point holds no cell lock.
C10_LockAroundOperator ==
    \A p \in Procs :
        IF wpc[p] = "locked"
        THEN HeldBy(p) = {wii[p]}
        ELSE HeldBy(p) = {}

C10_Witness ==
    \E p \in Procs :
        /\ wpc[p] = "locked"
        /\ wf[p] = 2
        /\ HeldBy(p) = {wii[p]}
        /\ applied[wii[p]][1] > 0
        /\ \E q \in Procs : q # p /\ wpc[q] = "locked"

\* C11: no operator is ever applied to a cell whose layer exceeds
\* topLayerToCalc, and the Ci and Cf of such a cell stay all zero; the cell
\* stays in the active sequence (workers do visit it).
C11_LayerExclusion ==
    \A i \in Cells :
        Layer[i] > topLayerToCalc =>
            /\ \A k \in DOMAIN scienceFuncs : applied[i][k] = 0
            /\ Ci[i] = Zeros
            /\ Cf[i] = Zeros

C11_Witness ==
    /\ pc = "output"
    /\ \E i \in Cells :
         /\ Layer[i] > topLayerToCalc
         /\ emisFlux[i][igS] > 0
         /\ visited[i] = Len(scienceFuncs) * iteration
         /\ iteration > 1
    /\ \E j \in Cells : Layer[j] = topLayerToCalc /\ Cf[j][igS] > 0

\* C12: when the emissions map holds a name outside EmisNames, Run never
\* gets past the emissions loop: it stops in the panic, no worker is ever
\* started, no operator is applied to any cell and no output map is made.
C12_UnknownPollutantFatal ==
    (\E pol \in DOMAIN emissions : pol \notin EmisNames) =>
        /\ pc \in {"start", "emis", "panic"}
        /\ \A p \in Procs : wpc[p] = "off"
        /\ \A i \in Cells : \A k \in DOMAIN scienceFuncs : applied[i][k] = 0
        /\ wg = 0
        /\ outputConc = <<>>

\* the panic after a known name of the same map was already processed
C12_Witness ==
    /\ pc = "panic"
    /\ DOMAIN emissions = {"SOx", "CO"}
    /\ pending = {"CO"}
    /\ \E i \in Cells : emisFlux[i][igS] > 0

\* C13: every variable of the map returned by Run has exactly 1 layer entry
\* when outputAllLayers is false and exactly Nlayers entries when it is true.
C13_OutputLayerCount ==
    pc = "returned" =>
        \A name \in DOMAIN outputConc :
            Len(outputConc[name]) = IF outputAllLayers THEN Nlayers ELSE 1

\* C16: no worker starts the first operator of iteration n+1 on any cell
\* before every worker has finished the last operator of iteration n on all
\* of its cells: the first science function has run on a cell at most once
\* more than the last one has run on any cell.
C16_IterationBarrier ==
    \A i \in CalcCells : \A j \in CalcCells :
        applied[i][1] <= applied[j][Len(scienceFuncs)] + 1

\* C18: at every moment the numbers of science functions received from their
\* channels by any two workers differ by at most 2.
C18_BoundedSkew ==
    \A p \in Procs : \A q \in Procs : taken[p] - taken[q] <= 2

C18_Witness ==
    \E p \in Procs : \E q \in Procs :
        /\ taken[p] - taken[q] = 2
        /\ wpc[q] = "recv"
        /\ Len(funcChan[q]) = chanCap

\* C20: without a cap Run never leaves its loop at the first periodic check,
\* whatever the emissions: at least two checks were made when it returns.
C20_NoQuitAtFirstCheck ==
    (pc \in {"output", "returned"} /\ NumIterations <= 0) => nChecks >= 2

\* the boundary cells of a direction
Ghosts(dir) == {boundaryCells[dir][k] : k \in 1..Len(boundaryCells[dir])}

\* C14: every boundary cell is flagged Boundary, has Ci, Cf and emisFlux of
\* numSpecies zeros, before, during and after Run, and has every neighbour
\* list empty; an active cell points to a boundary cell only through the list
\* of the direction whose collection the boundary cell is in; no cell of the
\* active sequence is a boundary cell and the active sequence does not grow.
C14_GhostCells ==
    /\ \A dir \in Directions : \A g \in Ghosts(dir) :
         /\ g.Boundary
         /\ Cardinality(DOMAIN g.Ci) = numSpecies
         /\ Cardinality(DOMAIN g.Cf) = numSpecies
         /\ \A s \in DOMAIN g.Ci : g.Ci[s] = 0
         /\ \A s \in DOMAIN g.Cf : g.Cf[s] = 0
         /\ \A s \in DOMAIN g.emisFlux : g.emisFlux[s] = 0
         /\ \A d2 \in NeighborLists : g.neighbors[d2] = <<>>
    /\ \A i \in Cells : \A dir \in Directions :
         \A k \in 1..Len(neighbors[i][dir]) :
             /\ neighbors[i][dir][k].coll = dir
             /\ neighbors[i][dir][k].at \in 1..Len(boundaryCells[dir])
    /\ \A i \in Cells : ~Boundary[i]
    /\ DOMAIN applied = Cells /\ DOMAIN visited = Cells

\* Run has returned with a boundary cell made before it and one made after
\* it from a cell whose concentration is not zero
C14_Witness ==
    /\ pc = "returned"
    /\ \E i \in Cells : \E dir \in Directions :
         /\ Cf[i][igS] > 0
         /\ applied[i][Len(scienceFuncs)] > 0
         /\ Len(neighbors[i][dir]) = 1
    /\ NumGhosts = MaxGhosts

\* C15: with a cap, every emissions name known and fair scheduling of Run
\* and of the workers, Run returns; it is never blocked forever in the sends
\* to the channels of the workers nor in wg.Wait().
C15_CapTermination ==
    (pc \in {"add", "send", "count", "waitCap", "output"}) ~> (pc = "returned")

C15_Witness ==
    /\ pc = "returned"
    /\ NumIterations = MaxNumIterations
    /\ nprocs = MaxProcs
    /\ NCells >= nprocs
    /\ \A i \in CalcCells : applied[i][Len(scienceFuncs)] = NumIterations
    /\ \E i \in Cells : Cf[i][igS] > 0

\* C17: a term of a cell with zero or negative diffusivity or with no wind
\* does not lower the minimum, so the Dt that setTstepCFL sets is the least
\* of the other terms and is greater than zero; it is finite and positive
\* when every wind and diffusivity is positive.
C17_DegenerateTermsExcluded ==
    tsI > 0 =>
        /\ ~Less(tsDt, tsProper) /\ ~Less(tsProper, tsDt)
        /\ tsDt.kind # "NaN"
        /\ Less(Finite(0, 1), tsDt)
        /\ tsPositive => tsDt.kind = "finite"

\* Run is in its main loop or in its completion wait
InProgress == pc \in {"add", "send", "count", "waitCap"}

\* C19: while Run is in progress, once a call of toArray or GetGeometry has
\* returned no read lock of it is left on any cell, so every worker can
\* still take the lock of each of its cells.
C19_ExtractionLeavesNoLock ==
    (InProgress /\ xpc = "returned") => \A i \in Cells : rlocks[i] = 0

\* the sum of what getValue returns for the five particle variables
SumOfParts(cf) ==
    getValue("PrimaryPM2_5", cf) + getValue("SOA", cf) + getValue("pNH4", cf)
      + getValue("pSO4", cf) + getValue("pNO3", cf)

\* C21: the entry of polLabels that getValue has used has as many
\* conversions as species, and getValue("TotalPM2_5") is the sum of what
\* getValue returns for PrimaryPM2_5, SOA, pNH4, pSO4 and pNO3, whatever the
\* concentrations.
C21_PairedCoefficients ==
    gvName \in DOMAIN polLabels =>
        /\ Len(polLabels[gvName].index) = Len(polLabels[gvName].conversion)
        /\ gvName = "TotalPM2_5" => gvVal = SumOfParts(Cf[0])

====
